---------------------------- MODULE Spec2Model ----------------------------
(***************************************************************************)
(* SMBus Packet Error Code (CRC-8, polynomial x^8+x^2+x+1, seed 0).        *)
(*                                                                         *)
(* The crate instantiates four macros of embedded-crc-macros:              *)
(*   crc8!                 -> default_impl::pec      (src/src/lib.rs:146)  *)
(*   crc8_hasher!          -> default_impl::Pec      (src/src/lib.rs:154)  *)
(*   crc8_lookup_table!    -> lookup_table_impl::pec (src/src/lib.rs:173)  *)
(*   crc8_hasher_lookup_table! -> lookup_table_impl::Pec (lib.rs:181)      *)
(* and build.rs generates LOOKUP_TABLE with                                *)
(*   build_rs_lookup_table_file_generation! (src/build.rs:4).              *)
(* The macro bodies are not part of the crate's files; they are modelled   *)
(* here after sections 4.1-4.4 of the specification.  The instantiations,  *)
(* their parameters and the callers are modelled from the crate's files.   *)
(***************************************************************************)
EXTENDS Integers, Sequences, FiniteSets, TLC

VARIABLES
    program,    \* which entry point runs: "build" (build.rs main), "fn" or "hasher" (benches)
    feature,    \* TRUE iff the crate is built with the lookup-table feature
    pc,         \* position of the running program
    i,          \* build.rs: loop index of write_file
    table,      \* build.rs: the entries written to the generated file so far
    data,       \* fn: the byte slice handed to pec
    pec_ret,    \* fn: the u8 pec returned (meaningful when pc = "done")
    crc,        \* hasher: the register Pec.crc
    written,    \* hasher: all bytes written since Pec::new(), in order (history)
    checksum,   \* hasher: the u64 the last finish() returned, as 8 little-endian bytes
    nWrite,     \* hasher: number of write() calls since Pec::new()
    nFinish     \* hasher: number of finish() calls since Pec::new()

vars == <<program, feature, pc, i, table, data, pec_ret, crc, written, checksum, nWrite, nFinish>>

---------------------------------------------------------------------------
(* Bounds of the model *)

\* longest sampled input of the one-shot function
MaxLen == 4
\* most bytes written into one Pec instance
MaxWritten == 4
\* longest sampled chunk of one write call
MaxChunk == 2
\* most write calls on one Pec instance
MaxWrites == 3
\* most finish calls on one Pec instance
MaxFinish == 2
\* most zero bytes put in front of an input
MaxZeros == 2

---------------------------------------------------------------------------
(* Program constants *)

\* crc8!(pec, 7, 0, ...)
PecPoly == 7
PecInit == 0
\* crc8_hasher!(Pec, 7, 0, ...)
HasherPoly == 7
HasherInit == 0
\* crc8_lookup_table!(pec, 0, ...)
LutPecInit == 0
\* crc8_hasher_lookup_table!(Pec, 0, ...)
LutHasherInit == 0
\* build.rs: crc8!(fn pec, 7, 0, "")
BuildPoly == 7
BuildInit == 0
\* build.rs: build_rs_lookup_table_file_generation!(..., u8, 256)
ArrayLength == 256
\* examples/example.rs
ADDRESS == 90
REGISTER == 6

---------------------------------------------------------------------------
(* Machine arithmetic *)

\* the values of a u8
U8 == 0..255

\* bit k of x
Bit(x, k) == (x \div (2 ^ k)) % 2

\* a ^ b on u8 operands, bit by bit
XOR(a, b) ==
    ((Bit(a, 0) + Bit(b, 0)) % 2)
    + 2 * ((Bit(a, 1) + Bit(b, 1)) % 2)
    + 4 * ((Bit(a, 2) + Bit(b, 2)) % 2)
    + 8 * ((Bit(a, 3) + Bit(b, 3)) % 2)
    + 16 * ((Bit(a, 4) + Bit(b, 4)) % 2)
    + 32 * ((Bit(a, 5) + Bit(b, 5)) % 2)
    + 64 * ((Bit(a, 6) + Bit(b, 6)) % 2)
    + 128 * ((Bit(a, 7) + Bit(b, 7)) % 2)

\* x << 1 on a u8: the bit shifted out of bit 7 is discarded
Shl1(x) == (x * 2) % 256

\* x as u8: the low 8 bits
AsU8(x) == x % 256

RECURSIVE LEBytes(_, _)
\* the n low bytes of x, least significant first
LEBytes(x, n) == IF n = 0 THEN <<>> ELSE <<x % 256>> \o LEBytes(x \div 256, n - 1)

\* x as u64 for an unsigned x: zero extension, as 8 little-endian bytes
AsU64(x) == LEBytes(x, 8)

\* v as u8 for a u64 v: the low byte
U64AsU8(v) == v[1]

\* n as u64 for a small constant n
U64(n) == LEBytes(n, 8)

---------------------------------------------------------------------------
(* The macro bodies (embedded-crc-macros), after specification 4.1-4.4 *)

\* one round: if bit 7 of crc is set, (crc << 1) ^ poly, else crc << 1
crc8_round(c, poly) ==
    IF Bit(c, 7) = 1 THEN XOR(Shl1(c), poly) ELSE Shl1(c)

RECURSIVE bit_loop(_, _)
\* "for _ in 0..8": st.crc is the register, st.left the iterations still to run
bit_loop(st, poly) ==
    IF st.left = 0 THEN st.crc
    ELSE bit_loop([crc |-> crc8_round(st.crc, poly), left |-> st.left - 1], poly)

\* n rounds on a register holding c
crc8_rounds(c, poly, n) == bit_loop([crc |-> c, left |-> n], poly)

\* the body of "for byte in data": crc ^= byte, then 8 rounds
crc8_update(c, byte, poly) == crc8_rounds(XOR(c, byte), poly, 8)

RECURSIVE byte_loop(_, _)
\* "for byte in data": st.crc is the register, st.rest the bytes still to come
byte_loop(st, poly) ==
    IF st.rest = <<>> THEN st.crc
    ELSE byte_loop([crc |-> crc8_update(st.crc, Head(st.rest), poly),
                    rest |-> Tail(st.rest)], poly)

\* the register after feeding bytes, in order, into a register holding c
crc8_fold(c, bytes, poly) == byte_loop([crc |-> c, rest |-> bytes], poly)

\* crc8!: let mut crc = initial; for byte in data { ... }; crc
crc8(bytes, poly, initial) == crc8_fold(initial, bytes, poly)

\* one table step: crc = LOOKUP_TABLE[(crc ^ byte) as usize]
lookup_update(c, byte, lut) == lut[XOR(c, byte) + 1]

RECURSIVE lookup_loop(_, _)
\* "for byte in data" of the table variant
lookup_loop(st, lut) ==
    IF st.rest = <<>> THEN st.crc
    ELSE lookup_loop([crc |-> lookup_update(st.crc, Head(st.rest), lut),
                      rest |-> Tail(st.rest)], lut)

\* the register after feeding bytes, in order, through the table
lookup_fold(c, bytes, lut) == lookup_loop([crc |-> c, rest |-> bytes], lut)

\* crc8_lookup_table!: let mut crc = initial; for byte in data { table step }; crc
crc8_lookup_table(bytes, lut, initial) == lookup_fold(initial, bytes, lut)

\* Hasher::finish of the generated struct: self.crc as u64
hasher_finish(c) == AsU64(c)

---------------------------------------------------------------------------
(* build.rs *)

\* build.rs with the polynomial and the initial value swapped
build_pec_swapped(bytes) == crc8(bytes, BuildInit, BuildPoly)

\* build.rs: crc8!(fn pec, 7, 0, "")
build_pec(bytes) == crc8(bytes, BuildPoly, BuildInit)

\* the entry write_file writes for loop index k: pec(&[k as u8])
table_entry(k) == build_pec(<<AsU8(k)>>)

\* the generated file: const LOOKUP_TABLE: [u8; 256] = [ ... ]
LOOKUP_TABLE == [k \in 1..ArrayLength |-> table_entry(k - 1)]

---------------------------------------------------------------------------
(* src/lib.rs *)

\* crc8! with the polynomial and the initial value swapped
default_impl_pec_swapped(bytes) == crc8(bytes, PecInit, PecPoly)

\* crc8! given the reflected form of the polynomial (0xE0)
default_impl_pec_reflected(bytes) == crc8(bytes, 128 + 64 + 32, PecInit)

\* crc8! seeded with 0xFF, as other CRC-8 variants are
default_impl_pec_ones(bytes) == crc8(bytes, PecPoly, 256 - 1)

\* default_impl::pec
default_impl_pec(bytes) == crc8(bytes, PecPoly, PecInit)

\* lookup_table_impl::pec
lookup_table_impl_pec(bytes) == crc8_lookup_table(bytes, LOOKUP_TABLE, LutPecInit)

\* pub use ...::pec, selected by the feature
pec(lookup, bytes) ==
    IF lookup THEN lookup_table_impl_pec(bytes) ELSE default_impl_pec(bytes)

\* a fresh hasher seeded with the polynomial instead of the initial value
Pec_new_swapped(lookup) == IF lookup THEN LutHasherInit ELSE HasherPoly

\* Pec::new(): the register of a fresh hasher
Pec_new(lookup) == IF lookup THEN LutHasherInit ELSE HasherInit

\* a write that starts over from the initial value instead of self.crc
Pec_write_restart(lookup, c, bytes) ==
    IF lookup THEN lookup_fold(LutHasherInit, bytes, LOOKUP_TABLE)
    ELSE crc8_fold(HasherInit, bytes, HasherPoly)

\* Pec::write(&mut self, bytes): the register after the call
Pec_write(lookup, c, bytes) ==
    IF lookup THEN lookup_fold(c, bytes, LOOKUP_TABLE)
    ELSE crc8_fold(c, bytes, HasherPoly)

\* a finish that widens through a signed type: self.crc as i8 as u64
Pec_finish_signed(c) ==
    <<c % 256>> \o [k \in 1..7 |-> IF Bit(c, 7) = 1 THEN 255 ELSE 0]

\* a finish that applies a final XOR (0x55), as CRC-8/ITU does
Pec_finish_xorout(c) == hasher_finish(XOR(c, 85))

\* Pec::finish(&self): the value returned
Pec_finish(c) == hasher_finish(c)

---------------------------------------------------------------------------
(* Inputs *)

\* the bytes the sampled inputs are built from: 0x00, 0x01, 0xB4, 0xFF
SampleBytes == {0, 1, 180, 255}

\* all sequences over S of length at most n
SeqsUpTo(S, n) == UNION {[1..m -> S] : m \in 0..n}

\* examples/example.rs: [ADDRESS << 1, REGISTER, 0xAB, 0xCD]
ExampleWrite == <<Shl1(ADDRESS), REGISTER, 171, 205>>

\* examples/example.rs: [ADDRESS << 1, REGISTER, (ADDRESS << 1) + 1, 38, 58]
ExampleWriteRead == <<Shl1(ADDRESS), REGISTER, AsU8(Shl1(ADDRESS) + 1), 38, 58>>

\* the byte slices handed to pec: every single byte, the sampled sequences, the examples
Inputs ==
    {<<b>> : b \in U8} \cup SeqsUpTo(SampleBytes, MaxLen)
        \cup {ExampleWrite, ExampleWriteRead}

\* the byte slices handed to one write call; sum is the last finish() value, if any
Chunks(sum) ==
    SeqsUpTo(SampleBytes, MaxChunk)
        \cup {SubSeq(ExampleWrite, 1, 1), SubSeq(ExampleWrite, 2, 4)}
        \cup {<<U64AsU8(v)>> : v \in sum}

---------------------------------------------------------------------------
(* The programs *)

Init ==
    /\ program \in {"build", "fn", "hasher"}
    /\ feature \in BOOLEAN
    /\ pc = CASE program = "build" -> "write_file"
              [] program = "fn" -> "call"
              [] OTHER -> "start"
    /\ i = 0
    /\ table = <<>>
    /\ data \in IF program = "fn" THEN Inputs ELSE {<<>>}
    /\ pec_ret = 0
    /\ crc = 0
    /\ written = <<>>
    /\ checksum = U64(0)
    /\ nWrite = 0
    /\ nFinish = 0

\* build.rs write_file: one iteration of "for i in 0..256"
write_file_entry ==
    /\ program = "build" /\ pc = "write_file"
    /\ i < ArrayLength
    /\ table' = Append(table, table_entry(i))
    /\ i' = i + 1
    /\ UNCHANGED <<program, feature, pc, data, pec_ret, crc, written, checksum, nWrite, nFinish>>

\* build.rs write_file: the loop is over, the file is complete
write_file_done ==
    /\ program = "build" /\ pc = "write_file"
    /\ i >= ArrayLength
    /\ pc' = "built"
    /\ UNCHANGED <<program, feature, i, table, data, pec_ret, crc, written, checksum, nWrite, nFinish>>

\* let pec = pec(data)
CallPec ==
    /\ program = "fn" /\ pc = "call"
    /\ pec_ret' = pec(feature, data)
    /\ pc' = "done"
    /\ UNCHANGED <<program, feature, i, table, data, crc, written, checksum, nWrite, nFinish>>

\* let mut hasher = Pec::new()
New ==
    /\ program = "hasher"
    /\ crc' = Pec_new(feature)
    /\ written' = <<>>
    /\ checksum' = U64(0)
    /\ nWrite' = 0
    /\ nFinish' = 0
    /\ pc' = "new"
    /\ UNCHANGED <<program, feature, i, table, data, pec_ret>>

\* hasher.write(chunk)
Write ==
    /\ program = "hasher" /\ pc \in {"new", "write", "finish"}
    /\ nWrite < MaxWrites
    /\ \E chunk \in Chunks(IF nFinish > 0 THEN {checksum} ELSE {}) :
        /\ Len(written) + Len(chunk) <= MaxWritten
        /\ crc' = Pec_write(feature, crc, chunk)
        /\ written' = written \o chunk
    /\ nWrite' = nWrite + 1
    /\ pc' = "write"
    /\ UNCHANGED <<program, feature, i, table, data, pec_ret, checksum, nFinish>>

\* a finish that hands out the register and resets it for the next message
Finish_reset ==
    /\ program = "hasher" /\ pc \in {"new", "write", "finish"}
    /\ nFinish < MaxFinish
    /\ checksum' = Pec_finish(crc)
    /\ crc' = Pec_new(feature)
    /\ nFinish' = nFinish + 1
    /\ pc' = "finish"
    /\ UNCHANGED <<program, feature, i, table, data, pec_ret, written, nWrite>>

\* let checksum = hasher.finish()
Finish ==
    /\ program = "hasher" /\ pc \in {"new", "write", "finish"}
    /\ nFinish < MaxFinish
    /\ checksum' = Pec_finish(crc)
    /\ nFinish' = nFinish + 1
    /\ pc' = "finish"
    /\ UNCHANGED <<program, feature, i, table, data, pec_ret, crc, written, nWrite>>

Next ==
    \/ write_file_entry
    \/ write_file_done
    \/ CallPec
    \/ New
    \/ Write
    \/ Finish

Spec == Init /\ [][Next]_vars

---------------------------------------------------------------------------
(* Properties *)

\* k zero bytes
Zeros(k) == [j \in 1..k |-> 0]

\* bytes with bit b of the byte at position p inverted
FlipBit(bytes, p, b) == [bytes EXCEPT ![p] = XOR(@, 2 ^ b)]

\* the one-shot call has returned
FnDone == program = "fn" /\ pc = "done"

\* the last hasher call was finish(), so checksum is its value for the bytes written
Finished == program = "hasher" /\ pc = "finish"

\* C1: for every input the bitwise pec and the lookup-table pec return the
\* same 8-bit value: what the build in use returned is what either returns.
C1_BitwiseEqualsLookup ==
    FnDone =>
        /\ pec_ret \in U8
        /\ pec_ret = default_impl_pec(data)
        /\ pec_ret = lookup_table_impl_pec(data)

C1_Witness ==
    FnDone /\ feature /\ Len(data) = MaxLen /\ data[1] = 255 /\ pec_ret # 0

\* C2: whatever the chunks written into a Pec since new(), finish yields the
\* one-shot pec of their concatenation.
C2_ChunkedEqualsOneShot ==
    Finished => checksum = AsU64(pec(feature, written))

C2_Witness ==
    Finished /\ nWrite = 2 /\ written = <<180, 6, 171, 205>> /\ checksum = U64(95)

\* C3: a finish step leaves the register and the bytes absorbed as they were,
\* returns the checksum of all bytes written since new() however many finish
\* calls came before, and repeats the previous value when no write came between.
C3_FinishDoesNotReset ==
    [][nFinish' = nFinish + 1 =>
        /\ crc' = crc
        /\ written' = written
        /\ checksum' = AsU64(pec(feature, written))
        /\ (pc = "finish" => checksum' = checksum)]_vars

C3_Witness ==
    Finished /\ nFinish = 2 /\ nWrite = 2 /\ Len(written) = 2 /\ U64AsU8(checksum) # 0

\* C4: the generated table has exactly 256 entries, and entry i is the bitwise
\* pec of the single byte i, that is 8 rounds with polynomial 0x07 on a
\* register holding i.
C4_TableCorrect ==
    /\ \A k \in 1..Len(table) :
        /\ table[k] = default_impl_pec(<<k - 1>>)
        /\ table[k] = crc8_rounds(k - 1, 7, 8)
    /\ (program = "build" /\ pc = "built") => (Len(table) = 256 /\ table = LOOKUP_TABLE)

C4_Witness ==
    program = "build" /\ pc = "built" /\ Len(table) = 256 /\ table[256] # 0

\* C5: pec returns 95 and 102 on the two worked examples for address 0x5A,
\* with and without the lookup table.
C5_WorkedExamples ==
    FnDone =>
        /\ data = <<180, 6, 171, 205>> => pec_ret = 95
        /\ data = <<180, 6, 181, 38, 58>> => pec_ret = 102

C5_Witness ==
    FnDone /\ ~feature /\ data = <<180, 6, 181, 38, 58>> /\ pec_ret = 102

\* C6: with no byte processed the result is the seed 0: pec of the empty slice
\* is 0, and finish on a Pec that got no write or only empty writes returns 0.
C6_EmptyIsZero ==
    /\ (FnDone /\ data = <<>>) => pec_ret = 0
    /\ (program = "hasher" /\ pc = "new") => crc = 0
    /\ (Finished /\ written = <<>>) => checksum = U64(0)

C6_Witness ==
    Finished /\ written = <<>> /\ nWrite = 2 /\ checksum = U64(0)

\* C7: the register is always an 8-bit value, and finish returns it zero
\* extended: the low byte is the register, the upper bytes are 0, and the
\* cast back to u8 loses nothing.
C7_RegisterIsU8 ==
    program = "hasher" =>
        /\ crc \in U8
        /\ pc = "finish" =>
            /\ U64AsU8(checksum) = crc
            /\ \A k \in 2..8 : checksum[k] = 0
            /\ AsU64(U64AsU8(checksum)) = checksum

C7_Witness ==
    Finished /\ crc >= 128 /\ Len(written) = MaxWritten

\* C8: zero bytes fed into a zero register leave it 0: pec([0]) = 0, and zero
\* bytes in front of an input do not change its pec.
C8_LeadingZeros ==
    FnDone =>
        /\ data = <<0>> => pec_ret = 0
        /\ \A k \in 0..MaxZeros : pec(feature, Zeros(k) \o data) = pec_ret

C8_Witness ==
    FnDone /\ Len(data) >= 2 /\ data[1] = 0 /\ data[2] # 0 /\ pec_ret # 0

\* C9: a message followed by its own checksum has pec 0; for the hasher,
\* after writing the byte finish returned, the next finish returns 0.
C9_ResidueIsZero ==
    /\ FnDone => pec(feature, Append(data, pec_ret)) = 0
    /\ (/\ Finished
        /\ written # <<>>
        /\ written[Len(written)] =
            U64AsU8(Pec_finish(Pec_write(feature, Pec_new(feature),
                                         SubSeq(written, 1, Len(written) - 1)))))
       => checksum = U64(0)

C9_Witness ==
    /\ Finished /\ nFinish = 2 /\ Len(written) >= 2
    /\ written[Len(written)] \notin SampleBytes
    /\ written[Len(written)] = pec(feature, SubSeq(written, 1, Len(written) - 1))
    /\ checksum = U64(0)

\* C10: inverting any single bit of any byte of a non-empty input changes pec.
C10_SingleBitErrorDetected ==
    FnDone =>
        \A p \in 1..Len(data), b \in 0..7 :
            pec(feature, FlipBit(data, p, b)) # pec_ret

C10_Witness ==
    FnDone /\ Len(data) = MaxLen /\ pec_ret # 0

=============================================================================
